---------------------------- MODULE Spec2Model ----------------------------
(***************************************************************************)
(* Layout generators of analog_ec: ResLadderDAC (dac/rladder/core.py),     *)
(* ClkInvAmp and ClkAmpReset (clk/driver.py), MOMCapCore and MOMCapChar    *)
(* (passives/capacitor/momcap.py).                                         *)
(*                                                                         *)
(* One template object is constructed (Init) and its draw_layout method is *)
(* run.  Coordinates are integers in resolution units.  Track indices may  *)
(* be half-integers and are kept doubled (a name ending in 2 holds twice   *)
(* the index).  Lengths given "in layout units" are kept in halves of a    *)
(* resolution unit, so that the conversion int(round(x / res)) rounds.     *)
(***************************************************************************)
EXTENDS Integers, Sequences, FiniteSets, TLC

VARIABLES cls,        \* the template class of the object
          params,     \* self.params
          grid,       \* what the routing grid and the sub-templates answer
          pc,         \* position in draw_layout
          ip,         \* index of the next statement (statement-wise classes)
          err,        \* the exception that ended draw_layout, "" if none
          scope,      \* names bound so far in draw_layout's frame
          readKeys,   \* keys looked up in self.params so far
          loc,        \* values of draw_layout's local variables
          masters,    \* templates created by new_template, in order
          insts,      \* instances placed by add_instance
          momcaps,    \* MOM capacitors drawn by add_mom_cap
          wires,      \* wires drawn
          resmetal,   \* metal resistors drawn
          pins,       \* pins exported
          bound_box,  \* the template's bounding box, <<w, h>>, or <<>>
          sch_params  \* self._sch_params

vars == <<cls, params, grid, pc, ip, err, scope, readKeys, loc, masters,
          insts, momcaps, wires, resmetal, pins, bound_box, sch_params>>

\* What draw_layout has put into the template so far.
layout == <<masters, insts, momcaps, wires, resmetal, pins, bound_box>>

None == [kind |-> "none"]

(***************************************************************************)
(* Bounds of the model.                                                    *)
(***************************************************************************)
MaxBits == 1       \* nin0, nin1 in 0..MaxBits
MaxOut == 3        \* nout in -1..MaxOut
MaxLen2 == 6       \* cap_width, cap_height in 0..MaxLen2 half units
MaxMargin2 == 3    \* cap_margin in 0..MaxMargin2 half units
MaxBlk == 2        \* half block sizes in 1..MaxBlk
MaxLayer == 3      \* cap_top_layer in 2..MaxLayer
MaxIdx2 == 2       \* doubled track indices in 0..MaxIdx2
MaxDim == 3        \* widths and heights of sub-blocks in 0..MaxDim
MaxTr2 == 5        \* doubled track indices of the DAC's ports in 0..MaxTr2
MaxPitch == 2      \* track pitch of the DAC's pin layer in 1..MaxPitch

(***************************************************************************)
(* Parameter declarations.                                                 *)
(***************************************************************************)
get_params_info(c) ==
    CASE c = "ClkInvAmp" -> {"res_params", "amp_params", "cap_params", "show_pins"}
      [] c = "ClkAmpReset" -> {"amp_params", "nor_params", "show_pins"}
      [] c = "ResLadderDAC" ->
            {"nin0", "nin1", "res_params", "mux_params", "nout", "show_pins"}
      [] c = "MOMCapCore" ->
            {"cap_bot_layer", "cap_top_layer", "cap_width", "cap_height",
             "cap_margin", "port_width", "port_idx", "cap_options",
             "half_blk_x", "half_blk_y", "show_pins"}
      [] c = "MOMCapChar" ->
            {"cap_bot_layer", "cap_top_layer", "cap_width", "cap_height",
             "sub_lch", "sub_w", "sub_type", "threshold", "cap_margin",
             "port_width", "port_idx", "show_pins", "cap_options", "sub_tr_w"}

get_default_param_values(c) ==
    CASE c = "ClkInvAmp" -> {"show_pins"}
      [] c = "ClkAmpReset" -> {"show_pins"}
      [] c = "ResLadderDAC" -> {"nout", "show_pins"}
      [] c = "MOMCapCore" ->
            {"cap_margin", "port_width", "port_idx", "cap_options",
             "half_blk_x", "half_blk_y", "show_pins"}
      [] c = "MOMCapChar" ->
            {"cap_margin", "port_width", "port_idx", "show_pins",
             "cap_options", "sub_tr_w"}

(***************************************************************************)
(* Names bound when draw_layout starts: the builtins it uses, the names    *)
(* its module imports or defines, and self.                                *)
(***************************************************************************)
Builtins == {"dict", "int", "round", "max", "range", "print", "ValueError",
             "isinstance"}

ModuleNames(c) ==
    CASE c = "ResLadderDAC" ->
            {"Dict", "Set", "Any", "Union", "TemplateDB", "TemplateBase", "BBox",
             "ResLadderTop", "ResLadderDAC"}
      [] c \in {"ClkInvAmp", "ClkAmpReset"} ->
            {"TYPE_CHECKING", "Dict", "Set", "Any", "BBox", "TrackID",
             "TemplateBase", "MOMCapCore", "Flop", "ResFeedbackCore", "InvAmp",
             "ClkInvAmp", "ClkAmpReset"}
      [] c \in {"MOMCapCore", "MOMCapChar"} ->
            {"TYPE_CHECKING", "Dict", "Set", "Any", "BBox", "TrackID",
             "TemplateBase", "SubstrateContact", "MOMCapCore", "MOMCapChar"}

InitScope(c) == Builtins \cup ModuleNames(c) \cup {"self"}

(***************************************************************************)
(* A statement (or a straight-line group of statements) of a draw_layout   *)
(* that is run statement by statement: the source line it starts at, when  *)
(* it runs (guard), the names it reads in evaluation order, the key of     *)
(* self.params it looks up after them ("" if none), the names it binds,    *)
(* and what it does to the template (eff, arg).                            *)
(***************************************************************************)
S(line, guard, names, key, defs, eff, arg) ==
    [line |-> line, guard |-> guard, names |-> names, key |-> key,
     defs |-> defs, eff |-> eff, arg |-> arg]

DacCode == <<
    S(58, "always", <<"self">>, "nin0", {"nin0"}, "none", ""),
    S(59, "always", <<"self">>, "nin1", {"nin1"}, "none", ""),
    S(60, "always", <<"self">>, "res_params", {"res_params"}, "none", ""),
    S(61, "always", <<"self">>, "mux_params", {"mux_params"}, "none", ""),
    S(62, "always", <<"self">>, "nout", {"nout"}, "assign", "nout"),
    S(63, "always", <<"self">>, "show_pins", {"show_pins"}, "none", ""),
    S(65, "always", <<"nout">>, "", {}, "check_nout", ""),
    S(68, "always", <<"self">>, "", {"res"}, "none", ""),
    S(69, "always", <<"nout">>, "", {"num_mux_left"}, "assign", "num_mux_left"),
    S(70, "always", <<"nout", "num_mux_left">>, "", {"num_mux_right"},
      "assign", "num_mux_right"),
    S(71, "always", <<"nin0">>, "", {"num_col"}, "assign", "num_col"),
    S(72, "always", <<"nin1">>, "", {"num_row"}, "assign", "num_row"),
    S(73, "always", <<"nin0", "nin1">>, "", {"nbits_tot"}, "assign", "nbits_tot"),
    S(76, "always", <<"dict", "col_nbits", "row_nbits", "config_file">>, "",
      {"mux_params"}, "none", ""),
    S(77, "always", <<"num_mux_left">>, "", {}, "none", ""),
    S(78, "lmux", <<"mux_params", "num_mux_left", "self", "mux_params",
                    "RLadderMuxArray">>, "", {"lmux_master"},
      "new_template", "RLadderMuxArray"),
    S(81, "nolmux", <<>>, "", {"lmux_master"}, "none", ""),
    S(83, "always", <<"num_mux_right", "mux_params">>, "", {}, "none", ""),
    S(84, "always", <<"self", "mux_params", "RLadderMuxArray">>, "",
      {"rmux_master"}, "new_template", "RLadderMuxArray"),
    S(86, "always", <<"dict", "l", "w", "sub_lch", "sub_w", "sub_type",
                      "threshold", "num_col", "num_row", "ndum", "res_type">>,
      "", {"res_params"}, "none", ""),
    S(88, "always", <<"self", "res_params", "ResLadderTop">>, "",
      {"res_master"}, "new_template", "ResLadderTop"),
    S(91, "always", <<"rmux_master", "self", "res_master", "int", "round", "max">>,
      "", {"mux_warr", "pin_layer", "tr_pitch", "mux_tr", "res_tr", "res_yo",
           "mux_yo"}, "none", ""),
    S(100, "always", <<"lmux_master">>, "", {"sup_table"}, "none", ""),
    S(102, "lmux", <<"self", "lmux_master", "mux_yo", "sup_table", "range",
                     "num_mux_left", "nbits_tot", "int", "round", "res">>, "",
      {"blk_w", "blk_h", "lmux_inst", "vref_left", "xo"}, "add_instance", "lmux"),
    S(117, "nolmux", <<"BBox">>, "", {"xo", "vref_left"}, "none", ""),
    S(122, "always", <<"self", "res_master", "xo", "res_yo", "sup_table",
                       "vref_left", "int", "round", "res">>, "",
      {"res_inst", "res_w", "res_h"}, "add_instance", "res"),
    S(131, "always", <<"self", "rmux_master", "xo", "mux_yo", "num_mux_left",
                       "nbits_tot", "sup_table">>, "",
      {"rmux_inst", "rmux_w", "rmux_h", "out_off", "in_off"},
      "add_instance", "rmux"),
    S(138, "always", <<"range", "num_mux_right", "num_out", "out_off", "self",
                       "rmux_inst", "nbits_tot", "in_off", "int", "round",
                       "res">>, "",
      {"mux_idx", "old_name", "new_name", "bit_idx", "vref_right"},
      "add_pin", "out"),
    S(148, "always", <<"range", "nbits_tot", "rmux_inst", "self", "vref_left",
                       "vref_right">>, "",
      {"vref_idx", "vref_warr", "vref_tr", "vref_layer"}, "add_wires", "vref"),
    S(155, "always", <<"max", "mux_yo", "rmux_h", "res_yo", "res_h",
                       "sup_table", "self", "xo">>, "", {"yo", "top_layer"},
      "set_size", ""),
    S(161, "always", <<"self", "top_layer", "sup_table">>, "",
      {"sup_width", "vdd_list", "vss_list"}, "add_wires", "fill"),
    S(164, "always", <<"self", "vdd_list">>, "", {}, "add_pin", "VDD"),
    S(165, "always", <<"self", "vss_list">>, "", {}, "add_pin", "VSS") >>

ClkAmpResetCode == <<
    S(205, "always", <<"self">>, "clkrx_params", {"clkrx_params"}, "none", ""),
    S(206, "always", <<"self">>, "nor_params", {"nor_params"}, "none", ""),
    S(207, "always", <<"self">>, "io_width_ntr", {"io_width_ntr"}, "none", ""),
    S(209, "always", <<"self", "clkrx_params", "ClkAmp">>, "", {"clkrx_master"},
      "new_template", "ClkAmp"),
    S(210, "always", <<"self", "nor_params", "ClkNorGate">>, "", {"nor_master"},
      "new_template", "ClkNorGate"),
    S(211, "always", <<"self", "clkrx_master">>, "", {"clkrx_inst"},
      "add_instance", "X0"),
    S(214, "always", <<>>, "", {"num_space_vert"}, "none", ""),
    S(215, "always", <<"nor_nyblk">>, "", {"total_height_nor"}, "none", ""),
    S(217, "always", <<"max", "total_height_nor", "clkrx_y">>, "",
      {"total_height"}, "none", ""),
    S(219, "always", <<"print", "nor_master", "total_height", "blk_w", "blk_h">>,
      "", {}, "none", ""),
    S(221, "always", <<>>, "", {"flop_x"}, "none", ""),
    S(223, "always", <<"clkrx_x", "flop_x">>, "", {"x_nor"}, "none", ""),
    S(225, "always", <<"self", "nor_master", "x_nor">>, "", {"bot_nor"},
      "add_instance", "X1"),
    S(226, "always", <<"self", "nor_master", "x_nor", "total_height">>, "",
      {"top_nor"}, "add_instance", "X2"),
    S(228, "always", <<"self", "dict", "Flop">>, "", {"flops_master"},
      "new_template", "Flop"),
    S(230, "always", <<"self", "flops_master", "round", "x_nor", "nor_nxblk",
                       "total_height">>, "",
      {"blk_w_flop", "blk_h_flop", "x_flops", "y_flops"}, "none", ""),
    S(235, "always", <<"self", "flops_master", "x_flops", "y_flops">>, "",
      {"flop_inst"}, "add_instance", "XFF"),
    S(237, "always", <<"self", "clkrx_master", "top_nor", "bot_nor",
                       "clkrx_inst">>, "",
      {"vss_nor_top", "vdd_nor_top", "vss_nor_bot", "vdd_nor_bot", "vss_clkrx",
       "vdd_clkrx", "clkrx_in_top", "clkrx_in_bot", "warr_vss"},
      "add_wires", "vss"),
    S(252, "always", <<"self", "warr_vss">>, "", {}, "add_pin", "VSS"),
    S(254, "always", <<"top_nor", "bot_nor", "clkrx_inst", "self", "flop_inst",
                       "TrackID", "y_flops", "blk_h_flop", "io_width_ntr",
                       "x_nor", "vdd_clkrx", "vdd_nor_bot", "vdd_nor_top">>, "",
      {"clkout_nor_top", "clkout_nor_bot", "warr_en_vert", "vdd_flop",
       "vss_flop", "pin_connect_layer", "warr_clk_bot_flop",
       "warr_clk_top_flop", "warr_clk_connection_bot",
       "warr_clk_connection_top", "warr_vdd_bot", "warr_vdd_top"},
      "add_wires", "route"),
    S(434, "always", <<"self", "warr_vdd_bot", "warr_vdd_top">>, "", {},
      "add_pin", "VDD"),
    S(439, "always", <<"TrackID", "pin_connect_layer", "self",
                       "warr_clk_bot_flop", "io_width_ntr",
                       "warr_clk_connection_bot", "warr_clk_connection_top",
                       "warr_clk_top_flop">>, "",
      {"track_clk_flop_int", "warr_clk_bot_vert", "warr_clk_top_vert"},
      "add_wires", "clk"),
    S(455, "always", <<"self", "vss_flop">>, "", {}, "add_pin", "VSS"),
    S(456, "always", <<"self", "vdd_flop">>, "", {}, "add_pin", "VDD"),
    S(457, "always", <<"self", "clkout_nor_top">>, "", {}, "add_pin", "CLKP"),
    S(458, "always", <<"self", "clkout_nor_bot">>, "", {}, "add_pin", "CLKN"),
    S(460, "always", <<"self", "clkrx_in_top">>, "", {}, "add_pin", "CLKP_PAD"),
    S(461, "always", <<"self", "clkrx_in_bot">>, "", {}, "add_pin", "CLKN_PAD"),
    S(463, "always", <<"self", "warr_en_vert">>, "", {}, "add_pin", "RST") >>

Code(c) == IF c = "ResLadderDAC" THEN DacCode ELSE ClkAmpResetCode

StmtClasses == {"ResLadderDAC", "ClkAmpReset"}


(***************************************************************************)
(* Exceptions and the records the template collects.                       *)
(***************************************************************************)
NoError == [type |-> "", what |-> ""]
Error(type, what) == [type |-> type, what |-> what]

Master(temp_cls, w, h) == [temp_cls |-> temp_cls, w |-> w, h |-> h]
Inst(name, master, x, y, orient) ==
    [name |-> name, temp_cls |-> master.temp_cls, x |-> x, y |-> y,
     w |-> master.w, h |-> master.h, orient |-> orient]
Wire(layer, track2, lower, upper) ==
    [layer |-> layer, track2 |-> track2, lower |-> lower, upper |-> upper]
Pin(name, warr) == [name |-> name, warr |-> warr]

(***************************************************************************)
(* ResLadderDAC.draw_layout and ClkAmpReset.draw_layout, statement by      *)
(* statement.                                                              *)
(***************************************************************************)
\* Index of the first name of the statement that is not bound, 0 if all are.
FirstUnbound(names, sc) ==
    IF \A i \in 1..Len(names) : names[i] \in sc
    THEN 0
    ELSE CHOOSE i \in 1..Len(names) :
            /\ names[i] \notin sc
            /\ \A j \in 1..(i - 1) : names[j] \in sc

\* The check of nout written with < in place of <=.
NoutInvalid_Strict(nout) == nout < 0

\* if nout <= 0: raise ValueError('nout must be positive.')
NoutInvalid(nout) == nout <= 0

GuardHolds(stmt, l) ==
    CASE stmt.guard = "always" -> TRUE
      [] stmt.guard = "lmux" -> l["num_mux_left"] > 0
      [] stmt.guard = "nolmux" -> ~(l["num_mux_left"] > 0)

\* The value a statement of ResLadderDAC.draw_layout assigns to a local.
DacValue(name, p, l) ==
    CASE name = "nout" -> p["nout"]
      [] name = "num_mux_left" -> l["nout"] \div 2
      [] name = "num_mux_right" -> l["nout"] - l["num_mux_left"]
      [] name = "num_col" -> 2 ^ p["nin0"]
      [] name = "num_row" -> 2 ^ p["nin1"]
      [] name = "nbits_tot" -> p["nin0"] + p["nin1"]

CurStmt == Code(cls)[ip]

Stmt_Enabled == cls \in StmtClasses /\ pc = "run"

\* The statement reads a name that nothing has bound: NameError.
Stmt_NameError ==
    /\ Stmt_Enabled
    /\ GuardHolds(CurStmt, loc)
    /\ FirstUnbound(CurStmt.names, scope) # 0
    /\ err' = Error("NameError", CurStmt.names[FirstUnbound(CurStmt.names, scope)])
    /\ pc' = "error"
    /\ UNCHANGED <<cls, params, grid, ip, scope, readKeys, loc, layout, sch_params>>

\* self.params[key] with a key the dictionary does not hold: KeyError.
Stmt_KeyError ==
    /\ Stmt_Enabled
    /\ GuardHolds(CurStmt, loc)
    /\ FirstUnbound(CurStmt.names, scope) = 0
    /\ CurStmt.key # ""
    /\ CurStmt.key \notin DOMAIN params
    /\ readKeys' = readKeys \cup {CurStmt.key}
    /\ err' = Error("KeyError", CurStmt.key)
    /\ pc' = "error"
    /\ UNCHANGED <<cls, params, grid, ip, scope, loc, layout, sch_params>>

\* Lines 65-66 of dac/rladder/core.py.
Stmt_Raise ==
    /\ Stmt_Enabled
    /\ FirstUnbound(CurStmt.names, scope) = 0
    /\ CurStmt.eff = "check_nout"
    /\ NoutInvalid(loc["nout"])
    /\ err' = Error("ValueError", "nout must be positive.")
    /\ pc' = "error"
    /\ UNCHANGED <<cls, params, grid, ip, scope, readKeys, loc, layout, sch_params>>

\* The statement runs (or is skipped, in the branch not taken); after the
\* last one draw_layout returns.
Stmt_Run ==
    /\ Stmt_Enabled
    /\ LET stmt == CurStmt
           runs == GuardHolds(stmt, loc)
       IN  /\ runs => /\ FirstUnbound(stmt.names, scope) = 0
                      /\ stmt.key # "" => stmt.key \in DOMAIN params
                      /\ stmt.eff = "check_nout" => ~NoutInvalid(loc["nout"])
           /\ scope' = IF runs THEN scope \cup stmt.defs ELSE scope
           /\ readKeys' = IF runs /\ stmt.key # "" THEN readKeys \cup {stmt.key}
                          ELSE readKeys
           /\ loc' = IF runs /\ stmt.eff = "assign"
                     THEN (stmt.arg :> DacValue(stmt.arg, params, loc)) @@ loc
                     ELSE loc
           /\ masters' = IF runs /\ stmt.eff = "new_template"
                         THEN Append(masters, Master(stmt.arg, 0, 0))
                         ELSE masters
           /\ insts' = IF runs /\ stmt.eff = "add_instance"
                       THEN insts \cup {Inst(stmt.arg, Master(stmt.arg, 0, 0), 0, 0, "R0")}
                       ELSE insts
           /\ wires' = IF runs /\ stmt.eff = "add_wires"
                       THEN wires \cup {Wire(0, 0, stmt.line, stmt.line)}
                       ELSE wires
           /\ pins' = IF runs /\ stmt.eff = "add_pin"
                      THEN pins \cup {Pin(stmt.arg, Wire(0, 0, stmt.line, stmt.line))}
                      ELSE pins
           /\ bound_box' = IF runs /\ stmt.eff = "set_size" THEN <<0, 0>>
                           ELSE bound_box
    /\ ip' = ip + 1
    /\ pc' = IF ip = Len(Code(cls)) THEN "done" ELSE "run"
    /\ UNCHANGED <<cls, params, grid, err, momcaps, resmetal, sch_params>>

(***************************************************************************)
(* MOMCapCore.draw_layout.                                                 *)
(***************************************************************************)
\* int(round(x / res)) of a length of x2 half resolution units: Python 3
\* rounds a half to the even neighbour.
ToUnit(x2) ==
    LET q == x2 \div 2
    IN  IF x2 % 2 = 0 THEN q
        ELSE IF q % 2 = 0 THEN q ELSE q + 1

\* The least multiple of blk that is >= x (round_up=True).
RoundUp(x, blk) == ((x + blk - 1) \div blk) * blk

\* Block size of the port layer; half_blk_x / half_blk_y allow half blocks.
BlkW(p, g) == IF p["half_blk_x"] THEN g.hblk_w ELSE 2 * g.hblk_w
BlkH(p, g) == IF p["half_blk_y"] THEN g.hblk_h ELSE 2 * g.hblk_h

\* The ports drawn on the capacitor's own top layer.
PortLayer_Same(p) == p["cap_top_layer"]

\* port_layer = cap_top_layer + 1
PortLayer(p) == p["cap_top_layer"] + 1

\* port_len = max(top_w, min_len - 2 * via_ext - bot_w - res_len), res_len = top_w
PortLen(g) ==
    LET a == g.top_w
        b == g.min_len - 2 * g.via_ext - g.bot_w - g.top_w
    IN  IF a >= b THEN a ELSE b

\* Lines 97-101: the options handed to add_mom_cap.  Options given without
\* a port_widths entry are passed on as they are.
CapOptions(p, g) ==
    IF p["cap_options"] = None
    THEN [has_port_widths |-> TRUE, port_widths |-> g.cap_port_width]
    ELSE IF p["cap_options"].has_port_widths
         THEN [has_port_widths |-> TRUE, port_widths |-> g.cap_port_width]
         ELSE p["cap_options"]

\* Lines 112-118: the bounding box <<width, height>> of the template, its
\* lower-left corner at the origin.
CapBoundBox(p, g) ==
    << RoundUp(ToUnit(p["cap_width"]), BlkW(p, g)),
       RoundUp(ToUnit(p["cap_height"]), BlkH(p, g)) >>

\* The margin taken off the bounding box once, not on both sides.
CapBox_OneMargin(bnd, cap_margin) ==
    LET cap_width == bnd[1] - cap_margin
        cap_height == bnd[2] - cap_margin
        cap_xl == (bnd[1] \div 2) - (cap_width \div 2)
        cap_yb == (bnd[2] \div 2) - (cap_height \div 2)
    IN  [xl |-> cap_xl, yb |-> cap_yb,
         xr |-> cap_xl + cap_width, yt |-> cap_yb + cap_height]

\* Lines 121-125: the box of the capacitor inside the bounding box bnd.
CapBox(bnd, cap_margin) ==
    LET cap_width == bnd[1] - 2 * cap_margin
        cap_height == bnd[2] - 2 * cap_margin
        cap_xl == (bnd[1] \div 2) - (cap_width \div 2)
        cap_yb == (bnd[2] \div 2) - (cap_height \div 2)
    IN  [xl |-> cap_xl, yb |-> cap_yb,
         xr |-> cap_xl + cap_width, yt |-> cap_yb + cap_height]

\* The pair unpacked as plus_idx, minus_idx = port_idx.
PlusIdx2_Swapped(port_idx, idx_default2) ==
    IF port_idx = None THEN idx_default2
    ELSE IF port_idx.kind = "int" THEN 2 * port_idx.val
    ELSE IF port_idx.val[1] = None THEN idx_default2
         ELSE port_idx.val[1].val2

\* Lines 133-142: the track of a port, given port_idx and the default track.
\* A pair is unpacked as minus_idx, plus_idx = port_idx.
PlusIdx2(port_idx, idx_default2) ==
    IF port_idx = None THEN idx_default2
    ELSE IF port_idx.kind = "int" THEN 2 * port_idx.val
    ELSE IF port_idx.val[2] = None THEN idx_default2
         ELSE port_idx.val[2].val2

MinusIdx2(port_idx, idx_default2) ==
    IF port_idx = None THEN idx_default2
    ELSE IF port_idx.kind = "int" THEN 2 * port_idx.val
    ELSE IF port_idx.val[1] = None THEN idx_default2
         ELSE port_idx.val[1].val2

\* Lines 129-131: the capacitor's two ports on cap_top_layer.  The port on
\* the lower track lies at the left edge of the capacitor, the other at the
\* right edge.
CapPortP(p, g, box) ==
    IF g.cp_first
    THEN Wire(p["cap_top_layer"], 0, box.xl, box.xl + g.bot_w)
    ELSE Wire(p["cap_top_layer"], 2, box.xr - g.bot_w, box.xr)

CapPortN(p, g, box) ==
    IF g.cp_first
    THEN Wire(p["cap_top_layer"], 2, box.xr - g.bot_w, box.xr)
    ELSE Wire(p["cap_top_layer"], 0, box.xl, box.xl + g.bot_w)

\* Lines 146-153: which port is connected first, under which name and on
\* which track.
PortOrder(cp, cn, plus_idx2, minus_idx2) ==
    IF cp.track2 < cn.track2
    THEN [warr0 |-> cp, warr1 |-> cn, name0 |-> "plus", name1 |-> "minus",
          tid0 |-> plus_idx2, tid1 |-> minus_idx2]
    ELSE [warr0 |-> cn, warr1 |-> cp, name0 |-> "minus", name1 |-> "plus",
          tid0 |-> minus_idx2, tid1 |-> plus_idx2]

\* connect_to_tracks(warr, tid): a wire on the port layer, on track tid,
\* covering the port.
ConnectToTracks(port_layer, warr, tid2) ==
    Wire(port_layer, tid2, warr.lower, warr.upper)

\* Lines 155-169: the wires, metal resistors and pins of the two ports.
CapRouting(p, g, box, plus_idx2, minus_idx2) ==
    LET port_layer == PortLayer(p)
        o == PortOrder(CapPortP(p, g, box), CapPortN(p, g, box),
                       plus_idx2, minus_idx2)
        c0 == ConnectToTracks(port_layer, o.warr0, o.tid0)
        c1 == ConnectToTracks(port_layer, o.warr1, o.tid1)
        res_len == g.top_w
        port_len == PortLen(g)
        r0 == Wire(port_layer, o.tid0, c0.lower - res_len, c0.lower)
        r1 == Wire(port_layer, o.tid1, c1.upper, c1.upper + res_len)
        w0 == Wire(port_layer, o.tid0, c0.lower - res_len - port_len,
                   c0.lower - res_len)
        w1 == Wire(port_layer, o.tid1, c1.upper + res_len,
                   c1.upper + res_len + port_len)
    IN  [wires |-> {c0, c1, w0, w1},
         resmetal |-> {r0, r1},
         pins |-> {Pin(o.name0, w0), Pin(o.name1, w1)}]

\* Lines 171-177.
CapSchParams(p, g) ==
    [w |-> g.top_w, l |-> g.top_w, layer |-> PortLayer(p)]

CapKeys == get_params_info("MOMCapCore")

Cap_ReadParams ==
    /\ cls = "MOMCapCore" /\ pc = "start"
    /\ CapKeys \subseteq DOMAIN params
    /\ readKeys' = readKeys \cup CapKeys
    /\ loc' = [k \in CapKeys |-> params[k]]
    /\ scope' = scope \cup CapKeys
    /\ pc' = "setup"
    /\ UNCHANGED <<cls, params, grid, ip, err, layout, sch_params>>

Cap_Setup ==
    /\ cls = "MOMCapCore" /\ pc = "setup"
    /\ loc' = [port_layer |-> PortLayer(loc), top_w |-> grid.top_w,
               cap_port_width |-> grid.cap_port_width,
               cap_options |-> CapOptions(loc, grid), bot_w |-> grid.bot_w,
               res_len |-> grid.top_w, port_len |-> PortLen(grid)] @@ loc
    /\ pc' = "size"
    /\ UNCHANGED <<cls, params, grid, ip, err, scope, readKeys, layout,
                   sch_params>>

Cap_SetSize ==
    /\ cls = "MOMCapCore" /\ pc = "size"
    /\ bound_box' = CapBoundBox(loc, grid)
    /\ loc' = [cap_width |-> ToUnit(loc["cap_width"]),
               cap_height |-> ToUnit(loc["cap_height"]),
               cap_margin |-> ToUnit(loc["cap_margin"])] @@ loc
    /\ pc' = "cap"
    /\ UNCHANGED <<cls, params, grid, ip, err, scope, readKeys, masters, insts,
                   momcaps, wires, resmetal, pins, sch_params>>

Cap_DrawCap ==
    /\ cls = "MOMCapCore" /\ pc = "cap"
    /\ LET box == CapBox(bound_box, loc["cap_margin"])
       IN  /\ momcaps' = momcaps \cup
                  {[box |-> box, bot_layer |-> loc["cap_bot_layer"],
                    num_layer |-> loc["cap_top_layer"] - loc["cap_bot_layer"] + 1,
                    options |-> loc["cap_options"]]}
           /\ loc' = [cap_width |-> box.xr - box.xl,
                      cap_height |-> box.yt - box.yb,
                      cap_box |-> box] @@ loc
    /\ pc' = "ports"
    /\ UNCHANGED <<cls, params, grid, ip, err, scope, readKeys, masters, insts,
                   wires, resmetal, pins, bound_box, sch_params>>

Cap_PortIdx ==
    /\ cls = "MOMCapCore" /\ pc = "ports"
    /\ loc' = [idx_default2 |-> grid.idx_default2,
               plus_idx2 |-> PlusIdx2(loc["port_idx"], grid.idx_default2),
               minus_idx2 |-> MinusIdx2(loc["port_idx"], grid.idx_default2)]
              @@ loc
    /\ pc' = "connect"
    /\ UNCHANGED <<cls, params, grid, ip, err, scope, readKeys, layout,
                   sch_params>>

Cap_Connect ==
    /\ cls = "MOMCapCore" /\ pc = "connect"
    /\ LET r == CapRouting(loc, grid, loc["cap_box"], loc["plus_idx2"],
                           loc["minus_idx2"])
       IN  /\ wires' = wires \cup r.wires
           /\ resmetal' = resmetal \cup r.resmetal
           /\ pins' = pins \cup r.pins
    /\ pc' = "sch"
    /\ UNCHANGED <<cls, params, grid, ip, err, scope, readKeys, loc, masters,
                   insts, momcaps, bound_box, sch_params>>

Cap_SchParams ==
    /\ cls = "MOMCapCore" /\ pc = "sch"
    /\ sch_params' = CapSchParams(loc, grid)
    /\ pc' = "done"
    /\ UNCHANGED <<cls, params, grid, ip, err, scope, readKeys, loc, layout>>

(***************************************************************************)
(* A MOMCapCore master made by new_template: the parameter table is        *)
(* completed with MOMCapCore's default values, and the master's            *)
(* draw_layout has run.                                                    *)
(***************************************************************************)
CapDefaults ==
    [cap_margin |-> 0, port_width |-> 1, port_idx |-> None,
     cap_options |-> None, half_blk_x |-> TRUE, half_blk_y |-> TRUE,
     show_pins |-> TRUE]

CapPopulate(table) ==
    [k \in CapKeys |-> IF k \in DOMAIN table THEN table[k] ELSE CapDefaults[k]]

CapMaster(p, g) ==
    LET bnd == CapBoundBox(p, g) IN Master("MOMCapCore", bnd[1], bnd[2])

\* The pins of a MOMCapCore master, in the master's coordinates.
CapMasterPins(p, g) ==
    CapRouting(p, g, CapBox(CapBoundBox(p, g), ToUnit(p["cap_margin"])),
               PlusIdx2(p["port_idx"], g.idx_default2),
               MinusIdx2(p["port_idx"], g.idx_default2)).pins

(***************************************************************************)
(* MOMCapChar.draw_layout.                                                 *)
(***************************************************************************)
CharReadKeys == {"sub_lch", "sub_w", "sub_type", "threshold", "sub_tr_w",
                 "show_pins"}

\* Lines 249-252.
CharCapParams(p) ==
    CapPopulate([show_pins |-> FALSE, half_blk_x |-> FALSE,
                 half_blk_y |-> TRUE] @@ p)

Char_ReadParams ==
    /\ cls = "MOMCapChar" /\ pc = "start"
    /\ CharReadKeys \subseteq DOMAIN params
    /\ readKeys' = readKeys \cup CharReadKeys
    /\ loc' = [k \in CharReadKeys |-> params[k]]
    /\ scope' = scope \cup CharReadKeys
    /\ pc' = "cap"
    /\ UNCHANGED <<cls, params, grid, ip, err, layout, sch_params>>

\* Lines 249-256.
Char_MakeCap ==
    /\ cls = "MOMCapChar" /\ pc = "cap"
    /\ LET cap_params == CharCapParams(params)
           master == CapMaster(cap_params, grid)
       IN  /\ masters' = Append(masters, master)
           /\ sch_params' = CapSchParams(cap_params, grid)
           /\ loc' = [cap_params |-> cap_params, master |-> master,
                      top_layer |-> PortLayer(cap_params),
                      cap_box |-> <<master.w, master.h>>] @@ loc
    /\ pc' = "sub"
    /\ UNCHANGED <<cls, params, grid, ip, err, scope, readKeys, insts, momcaps,
                   wires, resmetal, pins, bound_box>>

\* Lines 258-264: no substrate contact.
Char_NoSub ==
    /\ cls = "MOMCapChar" /\ pc = "sub"
    /\ loc["sub_w"] = 0
    /\ insts' = insts \cup {Inst("XCAP", loc["master"], 0, 0, "R0")}
    /\ pins' = pins \cup CapMasterPins(loc["cap_params"], grid)
    /\ bound_box' = loc["cap_box"]
    /\ pc' = "done"
    /\ UNCHANGED <<cls, params, grid, ip, err, scope, readKeys, loc, masters,
                   momcaps, wires, resmetal, sch_params>>

\* sub_port_name = 'VDD' if sub_type == 'ntap' else 'VSS'
SubPortName(sub_type) == IF sub_type = "ntap" THEN "VDD" ELSE "VSS"

\* Lines 265-315: substrate contacts below and above the capacitor.
Char_WithSub ==
    /\ cls = "MOMCapChar" /\ pc = "sub"
    /\ loc["sub_w"] # 0
    /\ LET cap_box == loc["cap_box"]
           sub_master == Master("SubstrateContact", grid.sub_box[1], grid.sub_box[2])
           sub_x == (cap_box[1] - sub_master.w) \div 2
           top_yo == sub_master.h * 2 + cap_box[2]
           sub_port_name == SubPortName(loc["sub_type"])
       IN  /\ masters' = Append(masters, sub_master)
           /\ insts' = insts \cup
                  {Inst("XBSUB", sub_master, sub_x, 0, "R0"),
                   Inst("XCAP", loc["master"], 0, sub_master.h, "R0"),
                   Inst("XTSUB", sub_master, sub_x, top_yo, "MX")}
           /\ pins' = pins \cup CapMasterPins(loc["cap_params"], grid) \cup
                  {Pin(sub_port_name, Wire(0, 0, 0, 0))}
           /\ bound_box' = <<cap_box[1], top_yo>>
           /\ sch_params' = [sub_name |-> sub_port_name] @@ sch_params
    /\ pc' = "done"
    /\ UNCHANGED <<cls, params, grid, ip, err, scope, readKeys, loc, momcaps,
                   wires, resmetal>>

(***************************************************************************)
(* ClkInvAmp.draw_layout.                                                  *)
(***************************************************************************)
InvReadKeys == {"res_params", "amp_params", "cap_params", "show_pins"}

\* Lines 89-92: the parameters of the capacitor master.
InvCapParams(cap_params, top_layer, h_atot) ==
    CapPopulate([cap_top_layer |-> top_layer, sub_name |-> "",
                 show_pins |-> FALSE, cap_height |-> 2 * (h_atot \div 2)]
                @@ cap_params)

\* The height of the template taken from the amplifier column alone.
InvPlacement_NoCapHeight(w_res, h_res, w_amp, h_amp, w_cap, h_cap) ==
    LET h_atot == h_res + 2 * h_amp
        h_tot == h_atot
        w_atot == IF w_res >= w_amp THEN w_res ELSE w_amp
        y_capn == (h_tot \div 2) - h_cap
    IN  [h_tot |-> h_tot, w_atot |-> w_atot,
         y_capn |-> y_capn,
         y_capp |-> y_capn + 2 * h_cap,
         y_ampn |-> ((h_tot - h_res) \div 2) - h_amp,
         y_ampp |-> ((h_tot + h_res) \div 2) + h_amp,
         y_res |-> (h_tot - h_res) \div 2,
         x_amp |-> w_cap + ((w_atot - w_amp) \div 2),
         x_res |-> w_cap + ((w_atot - w_res) \div 2)]

\* Lines 99-108: the size of the template and where the instances go.
InvPlacement(w_res, h_res, w_amp, h_amp, w_cap, h_cap) ==
    LET h_atot == h_res + 2 * h_amp
        h_tot == IF h_atot >= 2 * h_cap THEN h_atot ELSE 2 * h_cap
        w_atot == IF w_res >= w_amp THEN w_res ELSE w_amp
        y_capn == (h_tot \div 2) - h_cap
    IN  [h_tot |-> h_tot, w_atot |-> w_atot,
         y_capn |-> y_capn,
         y_capp |-> y_capn + 2 * h_cap,
         y_ampn |-> ((h_tot - h_res) \div 2) - h_amp,
         y_ampp |-> ((h_tot + h_res) \div 2) + h_amp,
         y_res |-> (h_tot - h_res) \div 2,
         x_amp |-> w_cap + ((w_atot - w_amp) \div 2),
         x_res |-> w_cap + ((w_atot - w_res) \div 2)]

Inv_ReadParams ==
    /\ cls = "ClkInvAmp" /\ pc = "start"
    /\ InvReadKeys \subseteq DOMAIN params
    /\ readKeys' = readKeys \cup InvReadKeys
    /\ loc' = [k \in InvReadKeys |-> params[k]]
    /\ scope' = scope \cup InvReadKeys
    /\ pc' = "masters"
    /\ UNCHANGED <<cls, params, grid, ip, err, layout, sch_params>>

\* Lines 72-93.
Inv_Masters ==
    /\ cls = "ClkInvAmp" /\ pc = "masters"
    /\ LET res_master == Master("ResFeedbackCore", grid.res_box[1], grid.res_box[2])
           amp_master == Master("InvAmp", grid.amp_box[1], grid.amp_box[2])
           top_layer == grid.top_layer
           h_atot == res_master.h + 2 * amp_master.h
           cap_params == InvCapParams(loc["cap_params"], top_layer, h_atot)
           cap_master == CapMaster(cap_params, grid)
       IN  /\ masters' = masters \o <<res_master, amp_master, cap_master>>
           /\ loc' = [res_master |-> res_master, amp_master |-> amp_master,
                      top_layer |-> top_layer, h_atot |-> h_atot,
                      cap_params |-> cap_params, cap_master |-> cap_master]
                     @@ loc
    /\ pc' = "place"
    /\ UNCHANGED <<cls, params, grid, ip, err, scope, readKeys, insts, momcaps,
                   wires, resmetal, pins, bound_box, sch_params>>

\* Lines 95-116.
Inv_Place ==
    /\ cls = "ClkInvAmp" /\ pc = "place"
    /\ LET res_master == loc["res_master"]
           amp_master == loc["amp_master"]
           pl == InvPlacement(res_master.w, res_master.h, amp_master.w,
                              amp_master.h, loc["cap_master"].w,
                              loc["cap_master"].h)
       IN  /\ bound_box' = <<pl.w_atot + loc["cap_master"].w, pl.h_tot>>
           /\ insts' = insts \cup
                  {Inst("XAMPN", amp_master, pl.x_amp, pl.y_ampn, "R0"),
                   Inst("XAMPP", amp_master, pl.x_amp, pl.y_ampp, "MX"),
                   Inst("XRES", res_master, pl.x_res, pl.y_res, "R0")}
           /\ loc' = [pl |-> pl] @@ loc
    /\ pc' = "caps"
    /\ UNCHANGED <<cls, params, grid, ip, err, scope, readKeys, masters,
                   momcaps, wires, resmetal, pins, sch_params>>

\* Lines 118-127.
Inv_Caps ==
    /\ cls = "ClkInvAmp" /\ pc = "caps"
    /\ LET cap_outn_tidx2 == grid.cap_outn_tidx2
           cap_params == [port_idx |->
                             [kind |-> "pair",
                              val |-> <<None, [kind |-> "num",
                                               val2 |-> cap_outn_tidx2]>>]]
                         @@ loc["cap_params"]
           cap_master == CapMaster(cap_params, grid)
       IN  /\ masters' = Append(masters, cap_master)
           /\ insts' = insts \cup
                  {Inst("XCAPN", cap_master, 0, loc["pl"].y_capn, "R0"),
                   Inst("XCAPP", cap_master, 0, loc["pl"].y_capp, "MX")}
           /\ loc' = [cap_params |-> cap_params, cap_master |-> cap_master]
                     @@ loc
    /\ pc' = "connect"
    /\ UNCHANGED <<cls, params, grid, ip, err, scope, readKeys, momcaps, wires,
                   resmetal, pins, bound_box, sch_params>>

\* Lines 129-157.  draw_layout returns; nothing assigns self._sch_params.
Inv_Connect ==
    /\ cls = "ClkInvAmp" /\ pc = "connect"
    /\ LET cap_pins == CapMasterPins(loc["cap_params"], grid)
           minus == CHOOSE q \in cap_pins : q.name = "minus"
           plus == CHOOSE q \in cap_pins : q.name = "plus"
           amp_out == Wire(loc["top_layer"], 0, 0, 0)
       IN  /\ wires' = wires \cup {plus.warr, amp_out}
           /\ pins' = pins \cup
                  {Pin("inp", minus.warr), Pin("inn", minus.warr),
                   Pin("outp", amp_out), Pin("outn", amp_out),
                   Pin("VDD", amp_out), Pin("VSS", amp_out)}
    /\ pc' = "done"
    /\ UNCHANGED <<cls, params, grid, ip, err, scope, readKeys, loc, masters,
                   insts, momcaps, resmetal, bound_box, sch_params>>

(***************************************************************************)
(* ResLadderDAC.draw_layout, lines 90-97: the vertical offsets of the      *)
(* ladder and of the muxes.  mux_tr2 and res_tr2 are the doubled track     *)
(* indices of the mux's in<1> and of the ladder's out<1>.                  *)
(***************************************************************************)
Max0(x) == IF x >= 0 THEN x ELSE 0

\* res_yo computed from res_tr - mux_tr, as mux_yo is.
ResYo_Swapped(mux_tr2, res_tr2, tr_pitch) ==
    ToUnit(Max0(res_tr2 - mux_tr2)) * tr_pitch

\* res_yo = int(round(max(mux_tr - res_tr, 0))) * tr_pitch
ResYo(mux_tr2, res_tr2, tr_pitch) == ToUnit(Max0(mux_tr2 - res_tr2)) * tr_pitch

\* mux_yo = int(round(max(res_tr - mux_tr, 0))) * tr_pitch
MuxYo(mux_tr2, res_tr2, tr_pitch) == ToUnit(Max0(res_tr2 - mux_tr2)) * tr_pitch

DAC_Offsets ==
    /\ cls = "ResLadderDAC" /\ pc = "yo"
    /\ loc' = [mux_tr2 |-> grid.mux_tr2, res_tr2 |-> grid.res_tr2,
               tr_pitch |-> grid.tr_pitch,
               res_yo |-> ResYo(grid.mux_tr2, grid.res_tr2, grid.tr_pitch),
               mux_yo |-> MuxYo(grid.mux_tr2, grid.res_tr2, grid.tr_pitch)]
    /\ pc' = "yo_done"
    /\ UNCHANGED <<cls, params, grid, ip, err, scope, readKeys, layout,
                   sch_params>>

(***************************************************************************)
(* The state after construction.  self.params holds the declared keys; the *)
(* caller's other keys may or may not have been kept.                      *)
(***************************************************************************)
NoGrid == [kind |-> "none"]

InitCommon(c) ==
    /\ cls = c
    /\ pc = IF c \in StmtClasses THEN "run" ELSE "start"
    /\ ip = IF c \in StmtClasses THEN 1 ELSE 0
    /\ err = NoError
    /\ scope = InitScope(c)
    /\ readKeys = {}
    /\ loc = <<>>
    /\ masters = <<>>
    /\ insts = {}
    /\ momcaps = {}
    /\ wires = {}
    /\ resmetal = {}
    /\ pins = {}
    /\ bound_box = <<>>
    /\ sch_params = None

InitDAC ==
    /\ InitCommon("ResLadderDAC")
    /\ grid = NoGrid
    /\ \E nin0 \in 0..MaxBits, nin1 \in 0..MaxBits, nout \in (-1)..MaxOut,
          show_pins \in BOOLEAN :
          params = [nin0 |-> nin0, nin1 |-> nin1, res_params |-> "res_params",
                    mux_params |-> "mux_params", nout |-> nout,
                    show_pins |-> show_pins]

\* Keys ClkAmpReset.draw_layout looks up that get_params_info does not declare.
ClkAmpResetExtraKeys == {"clkrx_params", "io_width_ntr"}

InitClkAmpReset ==
    /\ InitCommon("ClkAmpReset")
    /\ grid = NoGrid
    /\ \E show_pins \in BOOLEAN, keep \in SUBSET ClkAmpResetExtraKeys :
          params = [k \in get_params_info("ClkAmpReset") \cup keep |->
                      IF k = "show_pins" THEN show_pins ELSE TRUE]

CapParams(top, w2, h2, m2, port_idx, opts, hx, hy, show_pins) ==
    [cap_bot_layer |-> 1, cap_top_layer |-> top, cap_width |-> w2,
     cap_height |-> h2, cap_margin |-> m2, port_width |-> 1,
     port_idx |-> port_idx, cap_options |-> opts, half_blk_x |-> hx,
     half_blk_y |-> hy, show_pins |-> show_pins]

\* The answers of the routing grid that MOMCapCore asks for.
CapGrid(hblk_w, hblk_h, elec, idx_default2, cp_first) ==
    [hblk_w |-> hblk_w, hblk_h |-> hblk_h, top_w |-> elec[1],
     cap_port_width |-> 1, bot_w |-> elec[2], min_len |-> elec[3],
     via_ext |-> elec[4], idx_default2 |-> idx_default2, cp_first |-> cp_first]

\* <<top_w, bot_w, min_len, via_ext>> of the technologies explored.
ElecSet == {<<1, 1, 0, 0>>, <<1, 2, 8, 1>>, <<2, 2, 3, 0>>}

IdxElem == {None} \cup {[kind |-> "num", val2 |-> t] : t \in 0..MaxIdx2}

PortIdxSet ==
    {None} \cup {[kind |-> "int", val |-> k] : k \in 0..(MaxIdx2 \div 2)}
           \cup {[kind |-> "pair", val |-> <<a, b>>] : a \in IdxElem, b \in IdxElem}

CapOptionsSet == {None, [has_port_widths |-> TRUE, port_widths |-> 2],
                  [has_port_widths |-> FALSE, port_widths |-> 0]}

\* The sizes of the capacitor, with the default ports.
InitCapGeom ==
    /\ InitCommon("MOMCapCore")
    /\ \E w2 \in 0..MaxLen2, h2 \in 0..MaxLen2, m2 \in 0..MaxMargin2,
          hblk_w \in 1..MaxBlk, hblk_h \in 1..MaxBlk,
          hx \in BOOLEAN, hy \in BOOLEAN :
          /\ params = CapParams(2, w2, h2, m2, None, None, hx, hy, TRUE)
          /\ grid = CapGrid(hblk_w, hblk_h, <<1, 1, 0, 0>>, 0, TRUE)

\* The ports of the capacitor, with one size.
InitCapPorts ==
    /\ InitCommon("MOMCapCore")
    /\ \E top \in 2..MaxLayer, port_idx \in PortIdxSet, opts \in CapOptionsSet,
          elec \in ElecSet, idx_default2 \in 0..MaxIdx2, cp_first \in BOOLEAN :
          /\ params = CapParams(top, MaxLen2, MaxLen2, 0, port_idx, opts,
                                TRUE, TRUE, TRUE)
          /\ grid = CapGrid(1, 1, elec, idx_default2, cp_first)

InitChar ==
    /\ InitCommon("MOMCapChar")
    /\ \E w2 \in 0..MaxLen2, hblk_w \in 1..MaxBlk, sub_w \in 0..1,
          sub_type \in {"ptap", "ntap"}, sub_bw \in 0..MaxDim,
          sub_bh \in 0..MaxDim :
          /\ sub_w = 0 => sub_type = "ptap" /\ sub_bw = 0 /\ sub_bh = 0
          /\ params = [cap_bot_layer |-> 1, cap_top_layer |-> 2,
                       cap_width |-> w2, cap_height |-> MaxLen2, sub_lch |-> 1,
                       sub_w |-> sub_w, sub_type |-> sub_type,
                       threshold |-> "standard", cap_margin |-> 0,
                       port_width |-> 1, port_idx |-> None,
                       show_pins |-> TRUE, cap_options |-> None,
                       sub_tr_w |-> None]
          /\ grid = [sub_box |-> <<sub_bw, sub_bh>>]
                    @@ CapGrid(hblk_w, 1, <<1, 1, 0, 0>>, 0, TRUE)

InitInv ==
    /\ InitCommon("ClkInvAmp")
    /\ \E w_res \in 0..MaxDim, h_res \in 0..MaxDim, w_amp \in 0..MaxDim,
          h_amp \in 0..MaxDim, w2 \in {0, MaxLen2}, hblk_w \in 1..MaxBlk,
          hblk_h \in 1..MaxBlk :
          /\ params = [res_params |-> "res_params", amp_params |-> "amp_params",
                       cap_params |-> [cap_bot_layer |-> 1, cap_width |-> w2],
                       show_pins |-> TRUE]
          /\ grid = [res_box |-> <<w_res, h_res>>, amp_box |-> <<w_amp, h_amp>>,
                     top_layer |-> 2, cap_outn_tidx2 |-> 1]
                    @@ CapGrid(hblk_w, hblk_h, <<1, 1, 0, 0>>, 0, TRUE)

Init ==
    \/ InitDAC \/ InitClkAmpReset \/ InitCapGeom \/ InitCapPorts
    \/ InitChar \/ InitInv

Next ==
    \/ Stmt_NameError \/ Stmt_KeyError \/ Stmt_Raise \/ Stmt_Run
    \/ Cap_ReadParams \/ Cap_Setup \/ Cap_SetSize \/ Cap_DrawCap
    \/ Cap_PortIdx \/ Cap_Connect \/ Cap_SchParams
    \/ Char_ReadParams \/ Char_MakeCap \/ Char_NoSub \/ Char_WithSub
    \/ Inv_ReadParams \/ Inv_Masters \/ Inv_Place \/ Inv_Caps \/ Inv_Connect

Spec == Init /\ [][Next]_vars

(***************************************************************************)
(* The offset arithmetic of ResLadderDAC on its own: every pair of track   *)
(* indices and every pitch within the bounds.                              *)
(***************************************************************************)
InitOffsets ==
    /\ cls = "ResLadderDAC"
    /\ pc = "yo"
    /\ ip = 0
    /\ err = NoError
    /\ scope = InitScope("ResLadderDAC")
    /\ readKeys = {}
    /\ loc = <<>>
    /\ masters = <<>>
    /\ insts = {}
    /\ momcaps = {}
    /\ wires = {}
    /\ resmetal = {}
    /\ pins = {}
    /\ bound_box = <<>>
    /\ sch_params = None
    /\ params = [nin0 |-> 0, nin1 |-> 0, res_params |-> "res_params",
                 mux_params |-> "mux_params", nout |-> 1, show_pins |-> TRUE]
    /\ \E mux_tr2 \in 0..MaxTr2, res_tr2 \in 0..MaxTr2, tr_pitch \in 1..MaxPitch :
          grid = [mux_tr2 |-> mux_tr2, res_tr2 |-> res_tr2, tr_pitch |-> tr_pitch]

SpecOffsets == InitOffsets /\ [][DAC_Offsets]_vars

(***************************************************************************)
(* Properties.                                                             *)
(***************************************************************************)
EmptyLayout ==
    /\ masters = <<>> /\ insts = {} /\ momcaps = {} /\ wires = {}
    /\ resmetal = {} /\ pins = {} /\ bound_box = <<>>

\* Index in DacCode of the statement of line 65, the check of nout.
NoutCheckIp == CHOOSE i \in 1..Len(DacCode) : DacCode[i].eff = "check_nout"

\* C1: ResLadderDAC.draw_layout with nout <= 0 never gets past the check of
\* line 65, ends there with ValueError('nout must be positive.'), and the
\* template holds no master, instance, wire or pin and has no size, as
\* before the call.
C1_NoutRejected ==
    (cls = "ResLadderDAC" /\ pc \in {"run", "error", "done"}
       /\ params["nout"] <= 0) =>
        /\ EmptyLayout
        /\ pc # "done"
        /\ ip <= NoutCheckIp
        /\ pc = "error" => err = Error("ValueError", "nout must be positive.")
        /\ (pc = "run" /\ ip = NoutCheckIp) => ENABLED Stmt_Raise /\ ~ENABLED Stmt_Run

C1_Witness ==
    /\ cls = "ResLadderDAC" /\ params["nout"] <= 0
    /\ pc = "error" /\ err.type = "ValueError" /\ ip = NoutCheckIp

\* The first name read by draw_layout that no statement defines.
FirstUndefinedName(c) == IF c = "ResLadderDAC" THEN "col_nbits" ELSE "ClkAmp"

\* C2: a run of ResLadderDAC.draw_layout (nout >= 1) or of
\* ClkAmpReset.draw_layout never returns and never exports a pin; when it
\* has ended, it has ended with a NameError at the first undefined name.
C2_EndsAtFirstUndefinedName ==
    (cls \in StmtClasses /\ pc \in {"run", "error", "done"}
       /\ (cls = "ResLadderDAC" => params["nout"] >= 1)) =>
        /\ pc # "done"
        /\ pins = {}
        /\ pc = "error" => err = Error("NameError", FirstUndefinedName(cls))

\* The track the documentation of port_idx gives to a port: the default
\* track for None, the integer for an integer, the port's own element of the
\* pair (minus, plus), or the default track where that element is None.
DocPortIdx2(port, port_idx, idx_default2) ==
    IF port_idx = None THEN idx_default2
    ELSE IF port_idx.kind = "int" THEN 2 * port_idx.val
    ELSE LET e == IF port = "minus" THEN port_idx.val[1] ELSE port_idx.val[2]
         IN  IF e = None THEN idx_default2 ELSE e.val2

\* C3: once MOMCapCore has connected its ports, the pins are 'plus' and
\* 'minus', and each is on the track that the documentation of port_idx
\* gives to it.
C3_PortIdx ==
    (cls = "MOMCapCore" /\ pc \in {"sch", "done"}) =>
        /\ {q.name : q \in pins} = {"plus", "minus"}
        /\ \A q \in pins :
              q.warr.track2 =
                  DocPortIdx2(q.name, params["port_idx"], grid.idx_default2)

C3_Witness ==
    /\ cls = "MOMCapCore" /\ pc = "done"
    /\ params["port_idx"] # None
    /\ params["port_idx"].kind = "pair"
    /\ params["port_idx"].val[1] = None
    /\ params["port_idx"].val[2] # None
    /\ params["port_idx"].val[2].val2 # grid.idx_default2
    /\ \E q \in pins : q.name = "plus"
                       /\ q.warr.track2 = params["port_idx"].val[2].val2
    /\ \E q \in pins : q.name = "minus" /\ q.warr.track2 = grid.idx_default2

\* C4: the pins and the metal resistors of MOMCapCore, and the 'layer' entry
\* of sch_params, are on layer cap_top_layer + 1.
C4_PortLayer ==
    (cls = "MOMCapCore") =>
        /\ \A q \in pins : q.warr.layer = params["cap_top_layer"] + 1
        /\ \A r \in resmetal : r.layer = params["cap_top_layer"] + 1
        /\ pc \in {"sch", "done"} =>
              /\ \E q \in pins : q.name = "plus"
              /\ \E q \in pins : q.name = "minus"
              /\ resmetal # {}
        /\ pc = "done" =>
              /\ sch_params # None
              /\ sch_params.layer = params["cap_top_layer"] + 1

C4_Witness ==
    /\ cls = "MOMCapCore" /\ pc = "done"
    /\ params["cap_top_layer"] > 2
    /\ Cardinality(pins) = 2 /\ Cardinality(resmetal) = 2
    /\ sch_params # None

\* C5: the capacitor drawn by MOMCapCore keeps a gap of cap_margin (in
\* resolution units) to each of the four sides of the bounding box.
C5_Margins ==
    (cls = "MOMCapCore") =>
        \A c \in momcaps :
            LET m == ToUnit(params["cap_margin"])
            IN  /\ c.box.xl = m
                /\ c.box.yb = m
                /\ bound_box[1] - c.box.xr = m
                /\ bound_box[2] - c.box.yt = m

C5_Witness ==
    /\ cls = "MOMCapCore" /\ pc = "done"
    /\ momcaps # {}
    /\ ToUnit(params["cap_margin"]) > 0
    /\ bound_box[1] % 2 = 1 /\ bound_box[2] % 2 = 0 /\ bound_box[2] > 0

\* C6: the capacitor drawn by MOMCapCore is cap_width wide and cap_height
\* high (in resolution units).
C6_CapSize ==
    (cls = "MOMCapCore") =>
        \A c \in momcaps :
            /\ c.box.xr - c.box.xl = ToUnit(params["cap_width"])
            /\ c.box.yt - c.box.yb = ToUnit(params["cap_height"])

SchClasses == {"ClkInvAmp", "ClkAmpReset", "MOMCapCore", "MOMCapChar"}

\* C7: for a class with sch_params, sch_params is None before draw_layout
\* runs and is a dictionary, not None, once draw_layout has returned.
C7_SchParams ==
    (cls \in SchClasses) =>
        /\ (pc = "start" \/ (pc = "run" /\ ip = 1)) => sch_params = None
        /\ pc = "done" => sch_params # None

\* C8: draw_layout reads only keys that get_params_info declares, and every
\* key with a default value is declared.
C8_DeclaredKeys ==
    /\ \A c \in {"ClkInvAmp", "ClkAmpReset", "ResLadderDAC", "MOMCapCore",
                 "MOMCapChar"} :
          get_default_param_values(c) \subseteq get_params_info(c)
    /\ readKeys \subseteq get_params_info(cls)

\* The box an instance occupies: a mirrored instance (MX) extends downward
\* from its location.
InstBox(i) ==
    [xl |-> i.x, xr |-> i.x + i.w,
     yb |-> IF i.orient = "MX" THEN i.y - i.h ELSE i.y,
     yt |-> IF i.orient = "MX" THEN i.y ELSE i.y + i.h]

\* C9: in ClkInvAmp the bounding box is
\* [0, w_cap + max(w_res, w_amp)] x [0, max(h_res + 2 * h_amp, 2 * h_cap)],
\* every instance lies inside it, the capacitors occupy x in [0, w_cap] and
\* the column of the amplifiers and the resistor starts at x = w_cap.
C9_InsideBox ==
    (cls = "ClkInvAmp" /\ pc \in {"caps", "connect", "done"}) =>
        LET w_res == grid.res_box[1]
            h_res == grid.res_box[2]
            w_amp == grid.amp_box[1]
            h_amp == grid.amp_box[2]
            w_cap == masters[3].w
            h_cap == masters[3].h
            w_max == IF w_res >= w_amp THEN w_res ELSE w_amp
            h_a == h_res + 2 * h_amp
            h_max == IF h_a >= 2 * h_cap THEN h_a ELSE 2 * h_cap
            col == {i \in insts : i.name \in {"XAMPN", "XAMPP", "XRES"}}
            caps == {i \in insts : i.name \in {"XCAPN", "XCAPP"}}
        IN  /\ bound_box = <<w_cap + w_max, h_max>>
            /\ {i.name : i \in col} = {"XAMPN", "XAMPP", "XRES"}
            /\ pc \in {"connect", "done"} =>
                  {i.name : i \in caps} = {"XCAPN", "XCAPP"}
            /\ \A i \in insts :
                  /\ 0 <= InstBox(i).xl /\ InstBox(i).xr <= bound_box[1]
                  /\ 0 <= InstBox(i).yb /\ InstBox(i).yt <= bound_box[2]
            /\ \A i \in caps : InstBox(i).xl = 0 /\ InstBox(i).xr = w_cap
            /\ \A i \in col : InstBox(i).xl >= w_cap
            /\ \E i \in col : InstBox(i).xl = w_cap

C9_Witness ==
    /\ cls = "ClkInvAmp" /\ pc = "done"
    /\ Cardinality(insts) = 5
    /\ bound_box[2] % 2 = 1
    /\ bound_box[2] > 2 * masters[3].h
    /\ masters[3].h > 0
    /\ grid.res_box[1] > grid.amp_box[1] /\ grid.amp_box[1] > 0

Misalign2 ==
    (loc["mux_tr2"] * loc["tr_pitch"] + 2 * loc["mux_yo"])
      - (loc["res_tr2"] * loc["tr_pitch"] + 2 * loc["res_yo"])

=============================================================================
